---- MODULE Spec2Model ----
(***************************************************************************)
(* Compile-time SHA1 macros (sha1_hex!, sha1_base64!, sha1_bytes!).        *)
(*                                                                         *)
(* A macro invocation receives a token stream, parses one string or byte   *)
(* string literal from it, hashes the literal's bytes with SHA1 and        *)
(* expands to a literal holding the encoded digest, or to a compile error. *)
(*                                                                         *)
(* Representation                                                          *)
(*   byte        0..255                                                    *)
(*   32-bit word <<hi, lo>>, two 16-bit halves, value hi * 2^16 + lo       *)
(*   text        a sequence of one-character strings                       *)
(*   string literal value: a sequence of Unicode scalar values             *)
(*   optional value: <<>> (absent) or <<v>> (present)                      *)
(***************************************************************************)
EXTENDS Integers, Sequences, FiniteSets, TLC

(***************************************************************************)
(* Bounds of the explored inputs.                                          *)
(***************************************************************************)
\* longest short literal built over Alphabet
MaxLen == 1
\* long literals cover the padding boundaries of the first MaxBlocks blocks
MaxBlocks == 1
\* number of macro invocations in one recorded compilation session
MaxCalls == 3

VARIABLES
    macro,    \* name of the macro invoked last, "none" before any invocation
    tokens,   \* the token stream handed to it
    input,    \* optional: the parsed Input
    bytes,    \* optional: the result of Input::to_bytes
    hasher,   \* optional: the hasher of the invocation, as finalize left it
    hash,     \* the digest handed to the encoder closure, <<>> if none
    encoder,  \* name of the encoder closure that ran, "none" if none did
    output,   \* the token stream the macro expanded to
    log       \* history: one entry per invocation of a recorded session

vars == <<macro, tokens, input, bytes, hasher, hash, encoder, output, log>>

(***************************************************************************)
(* 32-bit words with wrapping arithmetic.                                  *)
(***************************************************************************)
W16 == 65536

RECURSIVE XorN(_, _, _)
XorN(a, b, n) ==
    IF n = 0 THEN 0 ELSE ((a + b) % 2) + 2 * XorN(a \div 2, b \div 2, n - 1)

RECURSIVE AndN(_, _, _)
AndN(a, b, n) ==
    IF n = 0 THEN 0
    ELSE ((a % 2) * (b % 2)) + 2 * AndN(a \div 2, b \div 2, n - 1)

\* bitwise operations on bytes, tabulated once
XorTab == [a \in 0..255 |-> [b \in 0..255 |-> XorN(a, b, 8)]]
AndTab == [a \in 0..255 |-> [b \in 0..255 |-> AndN(a, b, 8)]]

Xor16(a, b) ==
    (XorTab[a \div 256][b \div 256] * 256) + XorTab[a % 256][b % 256]
And16(a, b) ==
    (AndTab[a \div 256][b \div 256] * 256) + AndTab[a % 256][b % 256]

Xor(a, b) == <<Xor16(a[1], b[1]), Xor16(a[2], b[2])>>
And(a, b) == <<And16(a[1], b[1]), And16(a[2], b[2])>>
Not(a) == <<65535 - a[1], 65535 - a[2]>>
Or(a, b) == Not(And(Not(a), Not(b)))

\* wrapping_add
Add(a, b) ==
    LET lo == a[2] + b[2]
    IN  <<(a[1] + b[1] + (lo \div W16)) % W16, lo % W16>>

RotlShort(a, n) ==
    <<((a[1] * 2^n) % W16) + (a[2] \div 2^(16 - n)),
      ((a[2] * 2^n) % W16) + (a[1] \div 2^(16 - n))>>

\* rotate_left by n bits, 0 <= n < 32
Rotl(a, n) ==
    IF n >= 16 THEN RotlShort(<<a[2], a[1]>>, n - 16) ELSE RotlShort(a, n)

(***************************************************************************)
(* SHA1 as the sha1 crate computes it (Sha1::new, update, finalize).       *)
(***************************************************************************)
\* 0x67452301 0xEFCDAB89 0x98BADCFE 0x10325476 0xC3D2E1F0
H0 == << <<26437, 8961>>, <<61389, 43913>>, <<39098, 56574>>,
         <<4146, 21622>>, <<50130, 57840>> >>

\* 0x5A827999 0x6ED9EBA1 0x8F1BBCDC 0xCA62C1D6
K(t) ==
    IF t < 20 THEN <<23170, 31129>>
    ELSE IF t < 40 THEN <<28377, 60321>>
    ELSE IF t < 60 THEN <<36635, 48348>>
    ELSE <<51810, 49622>>

F(t, b, c, d) ==
    IF t < 20 THEN Or(And(b, c), And(Not(b), d))
    ELSE IF t < 40 THEN Xor(Xor(b, c), d)
    ELSE IF t < 60 THEN Or(Or(And(b, c), And(b, d)), And(c, d))
    ELSE Xor(Xor(b, c), d)

\* the sixteen big-endian words of a 64-byte block
Words(block) ==
    [i \in 1..16 |-> <<(block[4 * i - 3] * 256) + block[4 * i - 2],
                       (block[4 * i - 1] * 256) + block[4 * i]>>]

\* w[t] for t = lo-1 .. hi-1 appended to w (w[t] is stored at index t + 1)
RECURSIVE ExpandTo(_, _, _)
ExpandTo(w, lo, hi) ==
    IF lo = hi
    THEN Append(w, Rotl(Xor(Xor(Xor(w[lo - 3], w[lo - 8]), w[lo - 14]),
                            w[lo - 16]), 1))
    ELSE LET mid == (lo + hi) \div 2
         IN  CHOOSE o \in {ExpandTo(r, mid + 1, hi) :
                               r \in {ExpandTo(w, lo, mid)}} : TRUE

\* the message schedule w[0..79]
Schedule(block) == ExpandTo(Words(block), 17, 80)

\* a faulty round for comparison: b rotated by 2 instead of 30
RoundBadRotate(s, w, t) ==
    LET temp == Add(Add(Add(Add(Rotl(s[1], 5), F(t, s[2], s[3], s[4])),
                            s[5]), K(t)), w[t + 1])
    IN  <<temp, s[1], Rotl(s[2], 2), s[3], s[4]>>

\* one round: s = <<a, b, c, d, e>> before round t
Round(s, w, t) ==
    LET temp == Add(Add(Add(Add(Rotl(s[1], 5), F(t, s[2], s[3], s[4])),
                            s[5]), K(t)), w[t + 1])
    IN  <<temp, s[1], Rotl(s[2], 30), s[3], s[4]>>

\* the working variables after rounds lo..hi appended to trace
RECURSIVE RoundsTo(_, _, _, _)
RoundsTo(trace, w, lo, hi) ==
    IF lo = hi
    THEN Append(trace, Round(trace[Len(trace)], w, lo))
    ELSE LET mid == (lo + hi) \div 2
         IN  CHOOSE o \in {RoundsTo(r, w, mid + 1, hi) :
                               r \in {RoundsTo(trace, w, lo, mid)}} : TRUE

\* the hasher after compressing block with schedule w; before, w, trace and
\* blocks are kept for inspection only
CompressWith(hs, block, w) ==
    CHOOSE o \in
        {[h      |-> [i \in 1..5 |-> Add(hs.h[i], tr[81][i])],
          buffer |-> hs.buffer,
          len    |-> hs.len,
          blocks |-> Append(hs.blocks, block),
          before |-> hs.h,
          w      |-> w,
          trace  |-> tr] : tr \in {RoundsTo(<<hs.h>>, w, 0, 79)}} : TRUE

\* compress one 64-byte block into hasher hs
Compress(hs, block) ==
    CHOOSE o \in {CompressWith(hs, block, w) : w \in {Schedule(block)}} : TRUE

\* Sha1::new()
Sha1New ==
    [h |-> H0, buffer |-> <<>>, len |-> 0, blocks |-> <<>>,
     before |-> <<>>, w |-> <<>>, trace |-> <<>>]

\* compress every complete block at the front of the buffer
RECURSIVE Drain(_)
Drain(hs) ==
    IF Len(hs.buffer) < 64 THEN hs
    ELSE LET c == Compress(hs, SubSeq(hs.buffer, 1, 64))
         IN  Drain([c EXCEPT !.buffer = SubSeq(hs.buffer, 65, Len(hs.buffer))])

\* hasher.update(data)
Update(hs, data) ==
    Drain([hs EXCEPT !.buffer = hs.buffer \o data,
                     !.len = hs.len + Len(data)])

Zeros(n) == [i \in 1..n |-> 0]

\* u64::to_be_bytes of a bit length below 2^31
LenBytes(bits) ==
    <<0, 0, 0, 0, (bits \div 16777216) % 256, (bits \div 65536) % 256,
      (bits \div 256) % 256, bits % 256>>

\* a faulty padding for comparison: the length is written in bytes, not bits
PadByteLength(hs) ==
    LET pos == Len(hs.buffer)
        suffix == LenBytes(hs.len)
    IN  IF (64 - pos) - 1 < 8
        THEN Compress(Compress(hs, hs.buffer \o <<128>> \o Zeros(63 - pos)),
                      Zeros(56) \o suffix)
        ELSE Compress(hs, hs.buffer \o <<128>> \o Zeros(55 - pos) \o suffix)

\* the padding of finalize: 0x80, zeros, the bit length; a second block
\* when fewer than 8 bytes are left after the 0x80
Pad(hs) ==
    LET pos == Len(hs.buffer)
        suffix == LenBytes(hs.len * 8)
    IN  IF (64 - pos) - 1 < 8
        THEN Compress(Compress(hs, hs.buffer \o <<128>> \o Zeros(63 - pos)),
                      Zeros(56) \o suffix)
        ELSE Compress(hs, hs.buffer \o <<128>> \o Zeros(55 - pos) \o suffix)

\* the four big-endian bytes of a word
WordBytes(w) == <<w[1] \div 256, w[1] % 256, w[2] \div 256, w[2] % 256>>

\* the 20 digest bytes of a finalized hasher
DigestBytes(hs) ==
    WordBytes(hs.h[1]) \o WordBytes(hs.h[2]) \o WordBytes(hs.h[3])
        \o WordBytes(hs.h[4]) \o WordBytes(hs.h[5])

\* hasher.finalize(): the padded hasher, with an emptied buffer
Finalize(hs) == [Pad(hs) EXCEPT !.buffer = <<>>]

(***************************************************************************)
(* Tokens and the parser of the macro input.                               *)
(***************************************************************************)
\* a string literal "..." whose value is the scalar values chars
StrLit(chars) == [kind |-> "str", value |-> chars]
\* a byte string literal b"..." whose value is the byte sequence bs
ByteStrLit(bs) == [kind |-> "bytestr", value |-> bs]
\* tokens that are neither
IntLit == [kind |-> "int", value |-> <<>>]
Ident == [kind |-> "ident", value |-> <<>>]
Comma == [kind |-> "punct", value |-> <<",">>]
Star == [kind |-> "punct", value |-> <<"*">>]

\* the expansion of a failed parse: compile_error! { msg }
CompileError(msg) == <<[kind |-> "compile_error", value |-> <<msg>>]>>

\* input.error(message): syn's ParseStream::error puts "unexpected end of
\* input, " before the message of an error raised at the end of the stream
ParseStreamError(stream, message) ==
    IF stream = <<>> THEN "unexpected end of input, " \o message ELSE message

\* a faulty parser for comparison: any literal passes for a string
ParseAnyLiteral(stream) ==
    IF stream # <<>> /\ stream[1].kind \in {"str", "int"}
    THEN [ok |-> TRUE, input |-> <<[variant |-> "String", lit |-> stream[1]]>>,
          rest |-> Tail(stream), error |-> ""]
    ELSE IF stream # <<>> /\ stream[1].kind = "bytestr"
    THEN [ok |-> TRUE, input |-> <<[variant |-> "Bytes", lit |-> stream[1]]>>,
          rest |-> Tail(stream), error |-> ""]
    ELSE [ok |-> FALSE, input |-> <<>>, rest |-> stream,
          error |-> ParseStreamError(stream,
                                     "expected a string or byte literal")]

\* <Input as Parse>::parse: the parsed Input and the unread tokens, or an
\* error
Parse(stream) ==
    IF stream # <<>> /\ stream[1].kind = "str"
    THEN [ok |-> TRUE, input |-> <<[variant |-> "String", lit |-> stream[1]]>>,
          rest |-> Tail(stream), error |-> ""]
    ELSE IF stream # <<>> /\ stream[1].kind = "bytestr"
    THEN [ok |-> TRUE, input |-> <<[variant |-> "Bytes", lit |-> stream[1]]>>,
          rest |-> Tail(stream), error |-> ""]
    ELSE [ok |-> FALSE, input |-> <<>>, rest |-> stream,
          error |-> ParseStreamError(stream,
                                     "expected a string or byte literal")]

\* a faulty parse for comparison: tokens left over are ignored
ParseMacroInputPrefix(stream) == [Parse(stream) EXCEPT !.rest = <<>>]

\* parse_macro_input!(tokens as Input): Input::parse must consume the whole
\* stream; a token left over is an error
ParseMacroInput(stream) ==
    LET p == Parse(stream)
    IN  IF p.ok /\ p.rest # <<>>
        THEN [ok |-> FALSE, input |-> <<>>, rest |-> p.rest,
              error |-> "unexpected token"]
        ELSE p

\* the UTF-8 encoding of one Unicode scalar value
Utf8(cp) ==
    IF cp < 128 THEN <<cp>>
    ELSE IF cp < 2048 THEN <<192 + (cp \div 64), 128 + (cp % 64)>>
    ELSE IF cp < 65536
    THEN <<224 + (cp \div 4096), 128 + ((cp \div 64) % 64), 128 + (cp % 64)>>
    ELSE <<240 + (cp \div 262144), 128 + ((cp \div 4096) % 64),
           128 + ((cp \div 64) % 64), 128 + (cp % 64)>>

\* String::into_bytes: the UTF-8 bytes of a string
RECURSIVE IntoBytes(_)
IntoBytes(chars) ==
    IF chars = <<>> THEN <<>> ELSE Utf8(Head(chars)) \o IntoBytes(Tail(chars))

\* a faulty conversion for comparison: one byte per character
to_bytes_truncating(in) ==
    IF in.variant = "String"
    THEN [i \in 1..Len(in.lit.value) |-> in.lit.value[i] % 256]
    ELSE in.lit.value

\* Input::to_bytes
to_bytes(in) ==
    IF in.variant = "String" THEN IntoBytes(in.lit.value) ELSE in.lit.value

(***************************************************************************)
(* The encoders of the three macros.                                       *)
(***************************************************************************)
HexChars ==
    <<"0", "1", "2", "3", "4", "5", "6", "7",
      "8", "9", "a", "b", "c", "d", "e", "f">>

\* for comparison: hex::encode_upper
HexCharsUpper ==
    <<"0", "1", "2", "3", "4", "5", "6", "7",
      "8", "9", "A", "B", "C", "D", "E", "F">>

hex_encode_upper(data) ==
    [i \in 1..2 * Len(data) |->
        IF i % 2 = 1 THEN HexCharsUpper[(data[(i + 1) \div 2] \div 16) + 1]
        ELSE HexCharsUpper[(data[i \div 2] % 16) + 1]]

\* hex::encode
hex_encode(data) ==
    [i \in 1..2 * Len(data) |->
        IF i % 2 = 1 THEN HexChars[(data[(i + 1) \div 2] \div 16) + 1]
        ELSE HexChars[(data[i \div 2] % 16) + 1]]

Base64Chars ==
    <<"A", "B", "C", "D", "E", "F", "G", "H", "I", "J", "K", "L", "M",
      "N", "O", "P", "Q", "R", "S", "T", "U", "V", "W", "X", "Y", "Z",
      "a", "b", "c", "d", "e", "f", "g", "h", "i", "j", "k", "l", "m",
      "n", "o", "p", "q", "r", "s", "t", "u", "v", "w", "x", "y", "z",
      "0", "1", "2", "3", "4", "5", "6", "7", "8", "9", "+", "/">>

\* the characters of the input group starting at byte i (1, 2 or 3 bytes)
Base64Group(data, i) ==
    LET n == Len(data) - i + 1
        b1 == data[i]
        b2 == IF n >= 2 THEN data[i + 1] ELSE 0
        b3 == IF n >= 3 THEN data[i + 2] ELSE 0
        c1 == Base64Chars[(b1 \div 4) + 1]
        c2 == Base64Chars[((b1 % 4) * 16) + (b2 \div 16) + 1]
        c3 == Base64Chars[((b2 % 16) * 4) + (b3 \div 64) + 1]
        c4 == Base64Chars[(b3 % 64) + 1]
    IN  IF n >= 3 THEN <<c1, c2, c3, c4>>
        ELSE IF n = 2 THEN <<c1, c2, c3>>
        ELSE <<c1, c2>>

RECURSIVE Base64From(_, _)
Base64From(data, i) ==
    IF i > Len(data) THEN <<>>
    ELSE Base64Group(data, i) \o Base64From(data, i + 3)

RECURSIVE PadTo4(_)
PadTo4(text) == IF Len(text) % 4 = 0 THEN text ELSE PadTo4(Append(text, "="))

\* for comparison: STANDARD.encode, which pads with '='
base64_encode_padded(data) == PadTo4(Base64From(data, 1))

\* STANDARD_NO_PAD.encode
base64_encode(data) == Base64From(data, 1)

(***************************************************************************)
(* The macros.                                                             *)
(***************************************************************************)
None == <<>>
Some(v) == <<v>>

\* what an invocation leaves behind when the input does not parse
Rejected(p) ==
    [ok |-> FALSE, input |-> None, bytes |-> None, hasher |-> None,
     hash |-> <<>>, encoder |-> "none", output |-> CompileError(p.error)]

\* the digest of data by hasher hs, before the closure f runs
Hashed(p, data, hs) ==
    [ok |-> TRUE, input |-> p.input, bytes |-> Some(data),
     hasher |-> Some(hs), hash |-> DigestBytes(hs), encoder |-> "none",
     output |-> <<>>]

\* a faulty sha1_impl for comparison: the empty message is refused
sha1_impl_rejecting_empty(stream) ==
    LET p == ParseMacroInput(stream)
    IN  IF ~p.ok \/ to_bytes(p.input[1]) = <<>>
        THEN Rejected(p)
        ELSE CHOOSE o \in
                 {Hashed(p, data, Finalize(Update(Sha1New, data))) :
                      data \in {to_bytes(p.input[1])}} : TRUE

\* sha1_impl up to the call of the closure f
sha1_impl(stream) ==
    LET p == ParseMacroInput(stream)
    IN  IF ~p.ok
        THEN Rejected(p)
        ELSE CHOOSE o \in
                 {Hashed(p, data, Finalize(Update(Sha1New, data))) :
                      data \in {to_bytes(p.input[1])}} : TRUE

\* the closure f applied to the digest of an accepted input
Closure(r, name, expansion) ==
    IF r.ok THEN [r EXCEPT !.encoder = name, !.output = expansion] ELSE r

\* for comparison: sha1_hex! with upper case digits
sha1_hex_upper(stream) ==
    CHOOSE o \in
        {Closure(r, "sha1_hex", <<StrLit(hex_encode_upper(r.hash))>>) :
             r \in {sha1_impl(stream)}} : TRUE

\* sha1_hex!: the digest as a string literal of hexadecimal digits
sha1_hex(stream) ==
    CHOOSE o \in {Closure(r, "sha1_hex", <<StrLit(hex_encode(r.hash))>>) :
                      r \in {sha1_impl(stream)}} : TRUE

\* for comparison: sha1_base64! with padding
sha1_base64_padded(stream) ==
    CHOOSE o \in
        {Closure(r, "sha1_base64",
                 <<StrLit(base64_encode_padded(r.hash))>>) :
             r \in {sha1_impl(stream)}} : TRUE

\* sha1_base64!: the digest as a string literal of unpadded base64
sha1_base64(stream) ==
    CHOOSE o \in
        {Closure(r, "sha1_base64", <<StrLit(base64_encode(r.hash))>>) :
             r \in {sha1_impl(stream)}} : TRUE

\* for comparison: sha1_bytes! with the bytes in reverse order
sha1_bytes_reversed(stream) ==
    CHOOSE o \in
        {Closure(r, "sha1_bytes",
                 <<Star, ByteStrLit([i \in 1..Len(r.hash) |->
                                        r.hash[(Len(r.hash) + 1) - i]])>>) :
             r \in {sha1_impl(stream)}} : TRUE

\* sha1_bytes!: the digest as a dereferenced byte string literal, *b"..."
sha1_bytes(stream) ==
    CHOOSE o \in {Closure(r, "sha1_bytes", <<Star, ByteStrLit(r.hash)>>) :
                      r \in {sha1_impl(stream)}} : TRUE

(***************************************************************************)
(* The inputs explored.                                                    *)
(***************************************************************************)
\* "this is a test"
ThisIsATest == <<116, 104, 105, 115, 32, 105, 115, 32, 97, 32, 116, 101, 115, 116>>

\* 'a' and U+00E9
Alphabet == {97, 233}
ShortStrings == UNION {[1..n -> Alphabet] : n \in 0..MaxLen}
\* U+20AC and U+1F600 take three and four bytes
SpecialStrings == {ThisIsATest, <<8364>>, <<128512>>}
\* lengths on both sides of the padding boundaries of each block
LongLens == {(64 * k) + d : k \in 0..(MaxBlocks - 1), d \in {55, 56, 63, 64}}
LongStrings == {[i \in 1..n |-> 97] : n \in LongLens}
Strings == ShortStrings \cup SpecialStrings \cup LongStrings

StrLits == {StrLit(s) : s \in Strings}
ByteStrLits ==
    {ByteStrLit(IntoBytes(s)) : s \in Strings}
        \cup {ByteStrLit(<<255>>), ByteStrLit(<<0, 128>>), ByteStrLit(<<233>>)}
Literals == StrLits \cup ByteStrLits
OtherTokens == {IntLit, Ident, Comma}
FirstTokens == {StrLit(<<97>>), ByteStrLit(<<97>>), IntLit}
SecondTokens == {Comma, StrLit(<<97>>), ByteStrLit(<<97>>), IntLit}

TokenStreams ==
    {<<>>} \cup {<<t>> : t \in Literals \cup OtherTokens}
           \cup {<<t, u>> : t \in FirstTokens, u \in SecondTokens}

\* the inputs of a recorded session: the same text as a string and as a
\* byte string, another text, and an empty input
SessionStreams ==
    {<<StrLit(<<233>>)>>, <<ByteStrLit(<<195, 169>>)>>,
     <<StrLit(ThisIsATest)>>, <<>>}

(***************************************************************************)
(* The state machine.                                                      *)
(***************************************************************************)
Init ==
    /\ macro = "none"
    /\ tokens = <<>>
    /\ input = None
    /\ bytes = None
    /\ hasher = None
    /\ hash = <<>>
    /\ encoder = "none"
    /\ output = <<>>
    /\ log = <<>>

\* the state after macro m ran on stream with result r
Invoked(m, stream, r) ==
    /\ macro' = m
    /\ tokens' = stream
    /\ input' = r.input
    /\ bytes' = r.bytes
    /\ hasher' = r.hasher
    /\ hash' = r.hash
    /\ encoder' = r.encoder
    /\ output' = r.output

Entry(m, stream, r) ==
    [macro |-> m, tokens |-> stream, ok |-> r.ok, bytes |-> r.bytes,
     hash |-> r.hash, output |-> r.output]

\* One expansion: the compiler hands a token stream to one of the macros.
\* Each expansion is a call of its own and starts from the initial state.
Sha1Hex ==
    \E stream \in TokenStreams :
        /\ macro = "none"
        /\ Invoked("sha1_hex", stream, sha1_hex(stream))
        /\ UNCHANGED log

Sha1Base64 ==
    \E stream \in TokenStreams :
        /\ macro = "none"
        /\ Invoked("sha1_base64", stream, sha1_base64(stream))
        /\ UNCHANGED log

Sha1Bytes ==
    \E stream \in TokenStreams :
        /\ macro = "none"
        /\ Invoked("sha1_bytes", stream, sha1_bytes(stream))
        /\ UNCHANGED log

Next == Sha1Hex \/ Sha1Base64 \/ Sha1Bytes

Spec == Init /\ [][Next]_vars

\* A session: up to MaxCalls expansions one after the other in the same
\* compilation, each recorded in log.
SessionSha1Hex ==
    \E stream \in SessionStreams :
        /\ Len(log) < MaxCalls
        /\ \E r \in {sha1_hex(stream)} :
               /\ Invoked("sha1_hex", stream, r)
               /\ log' = Append(log, Entry("sha1_hex", stream, r))

SessionSha1Base64 ==
    \E stream \in SessionStreams :
        /\ Len(log) < MaxCalls
        /\ \E r \in {sha1_base64(stream)} :
               /\ Invoked("sha1_base64", stream, r)
               /\ log' = Append(log, Entry("sha1_base64", stream, r))

SessionSha1Bytes ==
    \E stream \in SessionStreams :
        /\ Len(log) < MaxCalls
        /\ \E r \in {sha1_bytes(stream)} :
               /\ Invoked("sha1_bytes", stream, r)
               /\ log' = Append(log, Entry("sha1_bytes", stream, r))

SessionNext == SessionSha1Hex \/ SessionSha1Base64 \/ SessionSha1Bytes

SpecSession == Init /\ [][SessionNext]_vars

(***************************************************************************)
(* Vocabulary of the properties.                                           *)
(***************************************************************************)
\* the macro input is exactly one string or byte string literal
Accepted(stream) == Len(stream) = 1 /\ stream[1].kind \in {"str", "bytestr"}
\* the macro input begins with a string or byte string literal
LiteralFirst(stream) ==
    stream # <<>> /\ stream[1].kind \in {"str", "bytestr"}
\* the macro input is the literal "this is a test" or b"this is a test"
IsThisIsATest(stream) ==
    stream \in {<<StrLit(ThisIsATest)>>, <<ByteStrLit(ThisIsATest)>>}
IsCompileError(out) == Len(out) = 1 /\ out[1].kind = "compile_error"
IsByte(b) == b \in 0..255
IsWord(w) == Len(w) = 2 /\ w[1] \in 0..65535 /\ w[2] \in 0..65535

RangeOf(seq) == {seq[i] : i \in DOMAIN seq}
HexVal(c) == CHOOSE k \in 0..15 : HexChars[k + 1] = c
Base64Val(c) == CHOOSE k \in 0..63 : Base64Chars[k + 1] = c
\* what hex! reads from a text of hexadecimal digits
HexDecode(text) ==
    [i \in 1..(Len(text) \div 2) |->
        (HexVal(text[(2 * i) - 1]) * 16) + HexVal(text[2 * i])]
\* bit k of a byte sequence, counted from the high bit of the first byte
ByteSeqBit(data, k) == (data[(k \div 8) + 1] \div (2 ^ (7 - (k % 8)))) % 2
\* bit k of a base64 text, six bits to the character
Base64Bit(text, k) ==
    (Base64Val(text[(k \div 6) + 1]) \div (2 ^ (5 - (k % 6)))) % 2
\* bit i of a word, bit 0 the lowest
WordBit(w, i) ==
    IF i >= 16 THEN (w[1] \div (2 ^ (i - 16))) % 2 ELSE (w[2] \div (2 ^ i)) % 2
RECURSIVE BitsValue(_, _, _)
BitsValue(g, lo, hi) ==
    IF lo > hi THEN 0 ELSE g[lo] + (2 * BitsValue(g, lo + 1, hi))
\* the word whose bit i is g[i]
WordOfBits(g) == <<BitsValue(g, 16, 31), BitsValue(g, 0, 15)>>
\* the sum of five words modulo 2^32
Sum5(a, b, c, d, e) ==
    LET lo == a[2] + b[2] + c[2] + d[2] + e[2]
        hi == a[1] + b[1] + c[1] + d[1] + e[1] + (lo \div 65536)
    IN  <<hi % 65536, lo % 65536>>
Sum2(a, b) == Sum5(a, b, <<0, 0>>, <<0, 0>>, <<0, 0>>)

\* byte i of the stream that a sequence of 64-byte blocks makes up
PaddedByte(blocks, i) == blocks[((i - 1) \div 64) + 1][((i - 1) % 64) + 1]
\* bit i of f(t, b, c, d)
FBit(t, b, c, d, i) ==
    IF t < 20 THEN (IF WordBit(b, i) = 1 THEN WordBit(c, i) ELSE WordBit(d, i))
    ELSE IF t >= 40 /\ t < 60
    THEN (IF WordBit(b, i) + WordBit(c, i) + WordBit(d, i) >= 2 THEN 1 ELSE 0)
    ELSE (WordBit(b, i) + WordBit(c, i) + WordBit(d, i)) % 2
\* 0x5A827999, 0x6ED9EBA1, 0x8F1BBCDC, 0xCA62C1D6 as halves
KWord(t) ==
    IF t < 20 THEN <<(90 * 256) + 130, (121 * 256) + 153>>
    ELSE IF t < 40 THEN <<(110 * 256) + 217, (235 * 256) + 161>>
    ELSE IF t < 60 THEN <<(143 * 256) + 27, (188 * 256) + 220>>
    ELSE <<(202 * 256) + 98, (193 * 256) + 214>>
\* x rotated left by n, bit by bit
RotlBits(x, n) == WordOfBits([i \in 0..31 |-> WordBit(x, (i + 32 - n) % 32)])
\* bs is the UTF-8 encoding of the scalar values chars, read as a decoder
\* reads it
RECURSIVE IsUtf8Of(_, _)
IsUtf8Of(bs, chars) ==
    IF chars = <<>> THEN bs = <<>>
    ELSE LET cp == Head(chars)
             n == IF cp < 128 THEN 1 ELSE IF cp < 2048 THEN 2
                  ELSE IF cp < 65536 THEN 3 ELSE 4
         IN  /\ Len(bs) >= n
             /\ \A k \in 2..n : bs[k] \div 64 = 2
             /\ IF n = 1 THEN bs[1] = cp
                ELSE IF n = 2
                THEN bs[1] \div 32 = 6
                         /\ ((bs[1] % 32) * 64) + (bs[2] % 64) = cp
                ELSE IF n = 3
                THEN bs[1] \div 16 = 14
                         /\ ((bs[1] % 16) * 4096) + ((bs[2] % 64) * 64)
                                + (bs[3] % 64) = cp
                ELSE bs[1] \div 8 = 30
                         /\ ((bs[1] % 8) * 262144) + ((bs[2] % 64) * 4096)
                                + ((bs[3] % 64) * 64) + (bs[4] % 64) = cp
             /\ IsUtf8Of(SubSeq(bs, n + 1, Len(bs)), Tail(chars))

\* the expansions that the documentation of the macros gives
HexOfThisIsATest ==
    <<"f", "a", "2", "6", "b", "e", "1", "9", "d", "e", "6", "b",
      "f", "f", "9", "3", "f", "7", "0", "b", "c", "2", "3", "0",
      "8", "4", "3", "4", "e", "4", "a", "4", "4", "0", "b", "b",
      "a", "d", "0", "2">>
Base64OfThisIsATest ==
    <<"+", "i", "a", "+", "G", "d", "5", "r", "/", "5", "P", "3",
      "C", "8", "I", "w", "h", "D", "T", "k", "p", "E", "C", "7",
      "r", "Q", "I">>
DigestOfThisIsATest ==
    <<250, 38, 190, 25, 222, 107, 255, 147, 247, 11, 194, 48, 132,
      52, 228, 164, 64, 187, 173, 2>>
\* da39a3ee5e6b4b0d3255bfef95601890afd80709
DigestOfEmpty ==
    <<218, 57, 163, 238, 94, 107, 75, 13, 50, 85, 191, 239, 149, 96,
      24, 144, 175, 216, 7, 9>>

(***************************************************************************)
(* C1. For every accepted input literal, sha1_hex expands to one string    *)
(* literal of exactly 40 characters, each in 0-9a-f, whose character pairs *)
(* (high nibble first) are the 20 bytes of the digest; for "this is a      *)
(* test" it is "fa26be19de6bff93f70bc2308434e4a440bbad02".                 *)
(***************************************************************************)
C1_HexEncoding ==
    (macro = "sha1_hex" /\ Accepted(tokens)) =>
        /\ Len(output) = 1
        /\ output[1].kind = "str"
        /\ Len(output[1].value) = 40
        /\ RangeOf(output[1].value) \subseteq RangeOf(HexChars)
        /\ Len(hash) = 20
        /\ \A i \in 1..20 :
               /\ HexVal(output[1].value[(2 * i) - 1]) = hash[i] \div 16
               /\ HexVal(output[1].value[2 * i]) = hash[i] % 16
        /\ IsThisIsATest(tokens) =>
               /\ hash = DigestOfThisIsATest
               /\ output[1].value = HexOfThisIsATest

C1_Witness ==
    /\ macro = "sha1_hex"
    /\ tokens = <<StrLit(ThisIsATest)>>
    /\ output = <<StrLit(HexOfThisIsATest)>>

(***************************************************************************)
(* C2. For every accepted input literal, sha1_base64 expands to one string *)
(* literal of exactly 27 characters of the standard base64 alphabet, none  *)
(* of them '=', whose 162 bits are the 160 bits of the digest followed by  *)
(* two zero bits; for "this is a test" it is                               *)
(* "+ia+Gd5r/5P3C8IwhDTkpEC7rQI".                                          *)
(***************************************************************************)
C2_Base64Encoding ==
    (macro = "sha1_base64" /\ Accepted(tokens)) =>
        /\ Len(output) = 1
        /\ output[1].kind = "str"
        /\ Len(output[1].value) = 27
        /\ "=" \notin RangeOf(output[1].value)
        /\ RangeOf(output[1].value) \subseteq RangeOf(Base64Chars)
        /\ Len(hash) = 20
        /\ \A k \in 0..161 :
               Base64Bit(output[1].value, k) =
                   IF k < 160 THEN ByteSeqBit(hash, k) ELSE 0
        /\ IsThisIsATest(tokens) =>
               /\ hash = DigestOfThisIsATest
               /\ output[1].value = Base64OfThisIsATest

C2_Witness ==
    /\ macro = "sha1_base64"
    /\ tokens = <<ByteStrLit(ThisIsATest)>>
    /\ output = <<StrLit(Base64OfThisIsATest)>>

(***************************************************************************)
(* C3. For every accepted input literal, sha1_bytes expands to a           *)
(* dereferenced byte string literal holding exactly the 20 digest bytes in *)
(* order, and hex-decoding what sha1_hex expands to for the same input     *)
(* gives the same 20 bytes.                                                *)
(***************************************************************************)
C3_BytesPassthrough ==
    /\ \A i \in DOMAIN log :
           (log[i].macro = "sha1_bytes" /\ Accepted(log[i].tokens)) =>
               /\ Len(log[i].output) = 2
               /\ log[i].output[1] = Star
               /\ log[i].output[2].kind = "bytestr"
               /\ Len(log[i].output[2].value) = 20
               /\ \A k \in 1..20 : IsByte(log[i].output[2].value[k])
               /\ log[i].output[2].value = log[i].hash
               /\ IsThisIsATest(log[i].tokens) =>
                      log[i].output[2].value = HexDecode(HexOfThisIsATest)
    /\ \A i, j \in DOMAIN log :
           (/\ log[i].macro = "sha1_hex"
            /\ log[j].macro = "sha1_bytes"
            /\ log[i].tokens = log[j].tokens
            /\ Accepted(log[i].tokens)) =>
               /\ ~IsCompileError(log[i].output)
               /\ ~IsCompileError(log[j].output)
               /\ HexDecode(log[i].output[1].value) = log[j].output[2].value

C3_Witness ==
    \E i, j \in DOMAIN log :
        /\ log[i].macro = "sha1_hex"
        /\ log[j].macro = "sha1_bytes"
        /\ log[i].tokens = <<StrLit(ThisIsATest)>>
        /\ log[j].tokens = <<StrLit(ThisIsATest)>>
        /\ log[j].output = <<Star, ByteStrLit(DigestOfThisIsATest)>>

(***************************************************************************)
(* C4, as stated. When the macro input does not begin with a string or     *)
(* byte string literal (an empty input included), the macro fails with the *)
(* error "expected a string or byte literal", no digest is computed and no *)
(* encoder runs.                                                           *)
(***************************************************************************)
C4_ExactMessage ==
    (macro # "none" /\ ~LiteralFirst(tokens)) =>
        /\ output = CompileError("expected a string or byte literal")
        /\ input = None
        /\ bytes = None
        /\ hasher = None
        /\ hash = <<>>
        /\ encoder = "none"

(***************************************************************************)
(* C4, amended. As above, except that for an empty input the error reads   *)
(* "unexpected end of input, expected a string or byte literal".           *)
(***************************************************************************)
C4_RejectsNonLiteral ==
    (macro # "none" /\ ~LiteralFirst(tokens)) =>
        /\ output =
               CompileError(
                   IF tokens = <<>>
                   THEN "unexpected end of input, expected a string or byte literal"
                   ELSE "expected a string or byte literal")
        /\ input = None
        /\ bytes = None
        /\ hasher = None
        /\ hash = <<>>
        /\ encoder = "none"

C4_Witness ==
    /\ macro = "sha1_base64"
    /\ tokens = <<IntLit, StrLit(<<97>>)>>
    /\ output = CompileError("expected a string or byte literal")
    /\ hasher = None

(***************************************************************************)
(* C5. Hashing has no error outcome: every accepted literal, of any        *)
(* length, the empty one included, yields a digest of 20 bytes and an      *)
(* expansion that is no compile error; the digest of the empty message is  *)
(* da39a3ee5e6b4b0d3255bfef95601890afd80709.                               *)
(***************************************************************************)
C5_NoErrorOutcome ==
    (macro # "none" /\ Accepted(tokens)) =>
        /\ bytes # None
        /\ hasher # None
        /\ Len(hash) = 20
        /\ \A k \in 1..20 : IsByte(hash[k])
        /\ ~IsCompileError(output)
        /\ bytes = Some(<<>>) => hash = DigestOfEmpty
        /\ tokens[1].value = <<>> => hash = DigestOfEmpty

C5_Witness ==
    /\ macro = "sha1_bytes"
    /\ tokens = <<StrLit(<<>>)>>
    /\ hash = DigestOfEmpty
    /\ output = <<Star, ByteStrLit(DigestOfEmpty)>>

(***************************************************************************)
(* C7. For a message of L bytes the padded stream is the message, the byte *)
(* 0x80, zero bytes, and L * 8 as a 64-bit big-endian number in the last 8 *)
(* bytes; it is a whole number of 64-byte blocks, floor((L + 8) / 64) + 1  *)
(* of them, one more than the message occupies exactly when                *)
(* L mod 64 >= 56.                                                         *)
(***************************************************************************)
C7_Padding ==
    hasher # None =>
        LET blocks == hasher[1].blocks
            n == Len(blocks)
            M == bytes[1]
            L == Len(M)
        IN  /\ \A b \in DOMAIN blocks :
                   Len(blocks[b]) = 64 /\ \A k \in 1..64 : IsByte(blocks[b][k])
            /\ n = ((L + 8) \div 64) + 1
            /\ \A i \in 1..L : PaddedByte(blocks, i) = M[i]
            /\ PaddedByte(blocks, L + 1) = 128
            /\ \A i \in (L + 2)..((64 * n) - 8) : PaddedByte(blocks, i) = 0
            /\ \A i \in ((64 * n) - 7)..((64 * n) - 3) :
                   PaddedByte(blocks, i) = 0
            /\ (PaddedByte(blocks, (64 * n) - 2) * 65536)
                   + (PaddedByte(blocks, (64 * n) - 1) * 256)
                   + PaddedByte(blocks, 64 * n) = L * 8
            /\ n \in {(L \div 64) + 1, (L \div 64) + 2}
            /\ (n = (L \div 64) + 2) <=> (L % 64 >= 56)

C7_Witness ==
    /\ hasher # None
    /\ Len(bytes[1]) = 56
    /\ Len(hasher[1].blocks) = 2
    /\ hasher[1].blocks[2] = Zeros(62) \o <<1, 192>>

(***************************************************************************)
(* C8. Compressing a block expands its sixteen big-endian words to eighty  *)
(* by w[t] = rotl(w[t-3] xor w[t-8] xor w[t-14] xor w[t-16], 1), runs      *)
(* exactly 80 rounds with the four f/k pairs and                           *)
(* temp = rotl(a,5) + f + e + k + w[t]; e=d; d=c; c=rotl(b,30); b=a;       *)
(* a=temp, and adds a..e back into h0..h4, every addition modulo 2^32, so  *)
(* that every word stays within 0..2^32-1. Stated bit by bit for the last  *)
(* block an invocation compressed.                                         *)
(***************************************************************************)
C8_Compression ==
    hasher # None =>
        LET hs == hasher[1]
            block == hs.blocks[Len(hs.blocks)]
            w == hs.w
            tr == hs.trace
        IN  /\ Len(w) = 80
            /\ \A t \in 1..80 : IsWord(w[t])
            /\ \A t \in 1..16 : \A k \in 0..3 :
                   (w[t][(k \div 2) + 1] \div (IF k % 2 = 0 THEN 256 ELSE 1))
                       % 256 = block[(4 * (t - 1)) + k + 1]
            /\ \A t \in 16..79 : \A i \in 0..31 :
                   WordBit(w[t + 1], (i + 1) % 32) =
                       (WordBit(w[t - 2], i) + WordBit(w[t - 7], i)
                            + WordBit(w[t - 13], i) + WordBit(w[t - 15], i)) % 2
            /\ Len(tr) = 81
            /\ \A t \in 1..81 : Len(tr[t]) = 5 /\ \A k \in 1..5 : IsWord(tr[t][k])
            /\ tr[1] = hs.before
            /\ \A t \in 0..79 :
                   LET a == tr[t + 1][1]
                       b == tr[t + 1][2]
                       c == tr[t + 1][3]
                       d == tr[t + 1][4]
                       e == tr[t + 1][5]
                       f == WordOfBits([i \in 0..31 |-> FBit(t, b, c, d, i)])
                   IN  tr[t + 2] =
                           <<Sum5(RotlBits(a, 5), f, e, KWord(t), w[t + 1]),
                             a, RotlBits(b, 30), c, d>>
            /\ Len(hs.h) = 5
            /\ \A k \in 1..5 :
                   IsWord(hs.h[k]) /\ hs.h[k] = Sum2(hs.before[k], tr[81][k])
            /\ hash = DigestBytes(hs)
            /\ IsThisIsATest(tokens) => hash = DigestOfThisIsATest

C8_Witness ==
    /\ hasher # None
    /\ Len(hasher[1].blocks) = 2
    /\ Len(hasher[1].trace) = 81
    /\ hasher[1].before # H0
    /\ \E k \in 1..5 :
           hasher[1].before[k][1] + hasher[1].trace[81][k][1] >= 65536

(***************************************************************************)
(* C9. A string literal and a byte string literal holding the UTF-8 bytes  *)
(* of that string expand identically under each of the three macros.       *)
(***************************************************************************)
C9_LiteralFormIrrelevant ==
    \A i, j \in DOMAIN log :
        (/\ log[i].macro = log[j].macro
         /\ Len(log[i].tokens) = 1
         /\ Len(log[j].tokens) = 1
         /\ log[i].tokens[1].kind = "str"
         /\ log[j].tokens[1].kind = "bytestr"
         /\ IsUtf8Of(log[j].tokens[1].value, log[i].tokens[1].value)) =>
            /\ log[i].ok
            /\ log[j].ok
            /\ log[i].bytes = log[j].bytes
            /\ log[i].hash = log[j].hash
            /\ log[i].output = log[j].output

C9_Witness ==
    \E i, j \in DOMAIN log :
        /\ log[i].macro = "sha1_hex"
        /\ log[j].macro = "sha1_hex"
        /\ log[i].tokens = <<StrLit(<<233>>)>>
        /\ log[j].tokens = <<ByteStrLit(<<195, 169>>)>>
        /\ ~IsCompileError(log[i].output)
        /\ log[i].output = log[j].output

(***************************************************************************)
(* C10. An input is hashed only when it is exactly one string or byte      *)
(* string literal: an input that begins with such a literal and goes on    *)
(* with a further token is rejected with an error and nothing is hashed.   *)
(***************************************************************************)
C10_ExactlyOneLiteral ==
    macro # "none" =>
        /\ (hasher # None \/ hash # <<>> \/ ~IsCompileError(output))
               => Accepted(tokens)
        /\ (LiteralFirst(tokens) /\ Len(tokens) >= 2) =>
               /\ IsCompileError(output)
               /\ bytes = None
               /\ hasher = None
               /\ hash = <<>>
               /\ encoder = "none"

C10_Witness ==
    /\ macro = "sha1_hex"
    /\ tokens = <<StrLit(<<97>>), Comma>>
    /\ IsCompileError(output)
    /\ hasher = None

====
